---- MODULE Spec2Model ----
(***************************************************************************)
(* A model of the Shiva prelinker, tools/shiva-ld/shiva-ld.c: main and     *)
(* shiva_prelink, run step by step over an ELF executable.                  *)
(*                                                                         *)
(* A file is a record: its size in bytes, the 32-bit value at              *)
(* e_ident[EI_PAD], its program header table, its section header table,    *)
(* and "data", the bytes the prelinker reads or writes one by one (the     *)
(* PT_INTERP string, the dynamic array, everything appended past the       *)
(* original end), as a function from file offset to byte.  Every other     *)
(* byte below "size" is a byte that no step reads or writes.               *)
(***************************************************************************)
EXTENDS Integers, Sequences, FiniteSets, TLC

\* ------------------------------------------------------------------ bounds
MaxTags == 2
MaxSearch == 2
MaxPatch == 2
MaxInterp == 2
MaxPad == 2
MaxUser == 2
MaxPassword == 2
MaxRet == 2
MaxSeg == 17

\* ------------------------------------------------------- program constants
ELF_MIN_ALIGN == 4096
SHIVA_SIGNATURE == 204644
NEW_DYN_COUNT == 3
NEW_DYN_ENTRY_SZ == 4
SizeofDyn == 16
SizeofQword == 8
DT_LOOS == 1610612749
DT_NULL == 0
SHIVA_DT_NEEDED == DT_LOOS + 10
SHIVA_DT_SEARCH == DT_LOOS + 11
SHIVA_DT_ORIG_INTERP == DT_LOOS + 12

\* ELF_PAGEALIGN(_v, _a), _a a power of two: round _v up to a multiple of _a
ELF_PAGEALIGN(v, a) == ((v + a - 1) \div a) * a

\* ------------------------------------------------------------ bytes, files
\* a local variable that was declared and not yet assigned
Uninit == "uninit"
NoBytes == [o \in {} |-> 0]
\* a byte of the image that is none of the prelinker's business
Opaque == 10 * 17

Pow256(i) == CASE i = 0 -> 1 [] i = 1 -> 256 [] i = 2 -> 65536 [] OTHER -> 16777216

\* byte i (0..7) of the little-endian 64-bit value x (x < 2^31 here)
LEByte(x, i) == IF i < 4 THEN (x \div Pow256(i)) % 256 ELSE 0

\* the 16 bytes of an ElfW(Dyn) {d_tag, d_un}
DynSeq(tag, val) ==
  [k \in 1..SizeofDyn |->
     IF k <= SizeofQword THEN LEByte(tag, k - 1)
     ELSE LEByte(val, k - 1 - SizeofQword)]

\* the strlen(s) + 1 bytes of a C string
StrSeq(s) == s \o <<0>>

\* the bytes of seq as file content at offsets off, off + 1, ...
Place(seq, off) == [o \in off..(off + Len(seq) - 1) |-> seq[o - off + 1]]

DynBytes(tag, val, off) == Place(DynSeq(tag, val), off)
StrBytes(s, off) == Place(StrSeq(s), off)

\* the byte of file f at offset off: a byte of data, a byte of one of the
\* runs of equal bytes in fill, or a byte nothing here reads or writes
ByteAt(f, off) ==
  IF off \in DOMAIN f.data THEN f.data[off]
  ELSE IF \E r \in f.fill : r.lo <= off /\ off <= r.hi
  THEN (CHOOSE r \in f.fill : r.lo <= off /\ off <= r.hi).byte
  ELSE Opaque

\* the 64-bit little-endian value at offset off; -1 when it does not fit
ReadQword(f, off) ==
  IF \E i \in 4..7 : ByteAt(f, off + i) # 0 \/ ByteAt(f, off + 3) >= 128 THEN -1
  ELSE ByteAt(f, off) + 256 * ByteAt(f, off + 1) + 65536 * ByteAt(f, off + 2)
       + 16777216 * ByteAt(f, off + 3)

\* strlen() of the C string at offset off
RECURSIVE StrlenFrom(_, _, _)
StrlenFrom(f, off, n) ==
  IF off + n \notin DOMAIN f.data \/ f.data[off + n] = 0 THEN n
  ELSE StrlenFrom(f, off, n + 1)

Strlen(f, off) == StrlenFrom(f, off, 0)

\* the C string at offset off, without its NUL
CStr(f, off) == [i \in 1..Strlen(f, off) |-> f.data[off + i - 1]]

EmptyFile ==
  [size |-> 0, epad |-> 0, phdrs |-> <<>>, shdrs |-> <<>>, data |-> NoBytes,
   fill |-> {}]

\* no file at a path
NoFile == [EmptyFile EXCEPT !.size = 0 - 1]

\* ------------------------------------------------------- the input images
LoadBase == 2 * ELF_MIN_ALIGN
InterpOff == 8 * 64
DynOff == 12 * 64
NoteOff == 14 * 64
ProgbitsOff == 16 * 64
Load1Size == 32 * 64
Load2Size == 16 * 64

Str(base, n) == [i \in 1..n |-> base + i]
SearchStrs == {Str(64, n) : n \in 1..MaxSearch}
PatchStrs == {Str(96, n) : n \in 1..MaxPatch}
NewInterpStrs == {Str(32, n) : n \in 1..(MaxInterp + 1)}

Phdr(type, offset, filesz, memsz, flags, align) ==
  [type |-> type, offset |-> offset, vaddr |-> LoadBase + offset,
   paddr |-> LoadBase + offset, filesz |-> filesz, memsz |-> memsz,
   flags |-> flags, align |-> align]

PhInterp(ilen) == Phdr("PT_INTERP", InterpOff, ilen + 1, ilen + 1, {"R"}, 1)
PhLoad1 == Phdr("PT_LOAD", 0, Load1Size, Load1Size, {"R", "X"}, ELF_MIN_ALIGN)
PhLoad2 == Phdr("PT_LOAD", Load1Size + ELF_MIN_ALIGN, Load2Size, Load2Size,
                {"R", "W"}, ELF_MIN_ALIGN)
PhDynamic(dynsz) == Phdr("PT_DYNAMIC", DynOff, dynsz, dynsz, {"R", "W"}, 8)
PhNote == Phdr("PT_NOTE", NoteOff, 32, 32, {"R"}, 4)
PhNote2 == Phdr("PT_NOTE", NoteOff + 32, 32, 32, {"R"}, 4)

Layouts ==
  {"std", "twonotes", "notefirst", "nonote", "loadlast", "nointerp", "static"}

PhdrsOf(layout, ilen, dynsz) ==
  CASE layout = "std" ->
         <<PhInterp(ilen), PhLoad1, PhDynamic(dynsz), PhNote>>
    [] layout = "twonotes" ->
         <<PhInterp(ilen), PhLoad1, PhDynamic(dynsz), PhNote, PhNote2>>
    [] layout = "notefirst" ->
         <<PhInterp(ilen), PhLoad1, PhNote, PhDynamic(dynsz)>>
    [] layout = "nonote" ->
         <<PhInterp(ilen), PhLoad1, PhDynamic(dynsz)>>
    [] layout = "loadlast" ->
         <<PhInterp(ilen), PhLoad1, PhDynamic(dynsz), PhNote, PhLoad2>>
    [] layout = "nointerp" ->
         <<PhLoad1, PhDynamic(dynsz), PhNote>>
    [] OTHER ->
         <<PhInterp(ilen), PhLoad1, PhNote>>

\* the i-th entry of an input's dynamic array: n entries, then DT_NULL entries
InDynTag(i, n) == IF i <= n THEN 2 * i - 1 ELSE DT_NULL
InDynVal(i, n) == IF i <= n THEN LoadBase + 7 * i ELSE 0

RECURSIVE InDynBytes(_, _, _)
InDynBytes(i, n, total) ==
  IF i > total THEN NoBytes
  ELSE DynBytes(InDynTag(i, n), InDynVal(i, n), DynOff + (i - 1) * SizeofDyn)
       @@ InDynBytes(i + 1, n, total)

\* An input executable: n dynamic entries before the terminator, slack more
\* DT_NULL entries after it (PT_DYNAMIC covers them all), an interpreter
\* string of ilen characters, and a size pad bytes short of three pages.
MkInput(layout, n, slack, ilen, pad) ==
  LET total == n + 1 + slack
      dynsz == total * SizeofDyn
      hasdyn == layout # "static"
  IN [size |-> 3 * ELF_MIN_ALIGN - pad,
      epad |-> 0,
      phdrs |-> PhdrsOf(layout, ilen, dynsz),
      shdrs |-> <<[type |-> "SHT_PROGBITS", offset |-> ProgbitsOff,
                   address |-> LoadBase + ProgbitsOff, size |-> 64]>>
                \o (IF hasdyn
                    THEN <<[type |-> "SHT_DYNAMIC", offset |-> DynOff,
                            address |-> LoadBase + DynOff, size |-> dynsz]>>
                    ELSE <<>>),
      data |-> (IF layout # "nointerp" THEN StrBytes(Str(48, ilen), InterpOff)
                ELSE NoBytes)
               @@ (IF hasdyn THEN InDynBytes(1, n, total) ELSE NoBytes),
      fill |-> {}]

Inputs ==
  {MkInput(l, n, s, i, p) :
     l \in Layouts, n \in 1..MaxTags, s \in 0..1, i \in 1..MaxInterp, p \in 0..MaxPad}

\* what may already be at the output path: nothing, a copy of the input, or
\* another executable (its interpreter string is longer than any input's)
OtherElf == MkInput("std", 1, 0, MaxInterp + 1, 0)

\* ------------------------------------------- the ELF library, as it is used
\* the (1-based) places of the program headers of a type, in table order
PhdrsOfType(f, t) == {i \in 1..Len(f.phdrs) : f.phdrs[i].type = t}
FirstOfType(f, t) == CHOOSE i \in PhdrsOfType(f, t) : \A j \in PhdrsOfType(f, t) : i <= j

\* elf_interpreter_path(): where the PT_INTERP string is in the image, or NULL
NULL == 0 - 1
elf_interpreter_path(f) ==
  IF PhdrsOfType(f, "PT_INTERP") = {} THEN NULL
  ELSE f.phdrs[FirstOfType(f, "PT_INTERP")].offset

\* elf_flags(obj, ELF_DYNAMIC_F)
elf_flags_dynamic(f) == PhdrsOfType(f, "PT_DYNAMIC") # {}

\* elf_dtag_count(): the entries of the dynamic array up to its first DT_NULL,
\* that entry counted ("the last entry which will be DT_NULL")
RECURSIVE DtagScan(_, _, _, _)
DtagScan(f, off, i, max) ==
  IF i >= max THEN max
  ELSE IF ReadQword(f, off + i * SizeofDyn) = DT_NULL THEN i + 1
  ELSE DtagScan(f, off, i + 1, max)

elf_dtag_count(f) ==
  LET d == f.phdrs[FirstOfType(f, "PT_DYNAMIC")]
  IN DtagScan(f, d.offset, 0, d.filesz \div SizeofDyn)

\* elf_read_address(): the file offset behind a virtual address, through the
\* PT_LOAD segment that maps it; the bytes read, or <<>> when it fails
LoadsAt(f, addr) ==
  {i \in PhdrsOfType(f, "PT_LOAD") :
     f.phdrs[i].vaddr <= addr /\ addr < f.phdrs[i].vaddr + f.phdrs[i].filesz}
AddrToOffset(f, addr) ==
  IF LoadsAt(f, addr) = {} THEN NULL
  ELSE LET p == f.phdrs[CHOOSE i \in LoadsAt(f, addr) : \A j \in LoadsAt(f, addr) : i <= j]
       IN addr - p.vaddr + p.offset
elf_read_address(f, addr, width) ==
  LET off == AddrToOffset(f, addr)
  IN IF off = NULL \/ off + width > f.size THEN <<>>
     ELSE [k \in 1..width |-> ByteAt(f, off + k - 1)]

\* elf_segment_modify() and elf_section_modify(): header number index (from 0)
\* of the image becomes the given one
elf_segment_modify(f, index, seg) == [f EXCEPT !.phdrs[index + 1] = seg]
elf_section_modify(f, index, sec) == [f EXCEPT !.shdrs[index + 1] = sec]

\* --------------------------------------------------------- elf_segment_copy
\* dst with the bytes src stored from index i (from 0) on
Store(dst, i, src) ==
  [k \in 1..Len(dst) |-> IF k - 1 >= i /\ k - 1 < i + Len(src) THEN src[k - i] ELSE dst[k]]

\* the rem single-byte reads of the last pass of the loop, from j on
RECURSIVE CopyRem(_, _, _, _, _, _)
CopyRem(f, segment, dst, i, j, rem) ==
  IF ~(j < rem) THEN [res |-> TRUE, dst |-> dst]
  ELSE LET b == elf_read_address(f, segment.vaddr + i + j, 1)
       IN IF b = <<>> THEN [res |-> FALSE, dst |-> dst]
          ELSE CopyRem(f, segment, Store(dst, i + j, b), i, j + 1, rem)

\* the loop of elf_segment_copy from i on: [res, dst]
RECURSIVE CopyLoop(_, _, _, _)
CopyLoop(f, segment, dst, i) ==
  IF ~(i < segment.filesz) THEN [res |-> TRUE, dst |-> dst]
  ELSE IF i + SizeofQword >= segment.filesz
  THEN CopyRem(f, segment, dst, i, 0, segment.filesz % SizeofQword)
  ELSE LET q == elf_read_address(f, segment.vaddr + i, SizeofQword)
       IN IF q = <<>> THEN [res |-> FALSE, dst |-> dst]
          ELSE CopyLoop(f, segment, Store(dst, i, q), i + SizeofQword)

\* elf_segment_copy() into a buffer that calloc() zeroed
elf_segment_copy(f, segment) ==
  CopyLoop(f, segment, [k \in 1..segment.filesz |-> 0], 0)

\* ------------------------------------------------------------------ state
VARIABLES
  pc,           \* where main / shiva_prelink is
  run,          \* 1, or 2 when the tool runs again on its own output
  input,        \* the file at the -e path (NoFile: there is none)
  args,         \* the command line: the flags given, and the strings of
                \* ctx.search_path, ctx.input_patch, ctx.interp_path
  mem,          \* ctx->bin.elfobj: the private mapping of the input
  ctx,          \* ctx->orig_interp_path and ctx->new_segment
  lv,           \* the locals of shiva_prelink, and in "heap" the blocks it
                \* got from strdup() and calloc() and has not given to free()
  fs,           \* the temporary file and the file at the -o path
  pre,          \* what was at the -o path when the run began
  renamed,      \* what rename() did (the code does not look)
  io_failed,    \* a system or library call of this run has failed
  ret,          \* what shiva_prelink returned, once pc is "returned"
  exit_status,  \* what main gave exit(), once pc is "exited"
  first,        \* the first run's output, in the second run
  hook,         \* sshd's patched auth_password: one call of the hook
  copy          \* one call of elf_segment_copy on its own

vars ==
  <<pc, run, input, args, mem, ctx, lv, fs, pre, renamed, io_failed, ret,
    exit_status, first, hook, copy>>

\* memset(&ctx, 0, sizeof(ctx))
Ctx0 ==
  [orig_interp_path |-> <<>>,
   new_segment |-> [vaddr |-> 0, offset |-> 0, filesz |-> 0, memsz |-> 0,
                    dyn_size |-> 0, dyn_offset |-> 0]]

Lv0 ==
  [index |-> 0, last_load_vaddr |-> Uninit, last_load_offset |-> Uninit,
   last_load_size |-> Uninit, last_load_align |-> Uninit,
   found_note |-> FALSE, found_dynamic |-> FALSE,
   old_dynamic_segment |-> <<>>, old_dynamic_size |-> Uninit,
   dynamic_index |-> Uninit, n_segment |-> Uninit, fd |-> "none",
   heap |-> {}]

\* the hook of sshd_patch.c before it is called
HookIdle ==
  [pc |-> "idle", user |-> <<>>, password |-> <<>>, orig |-> 0, logfd |-> Uninit,
   ret |-> Uninit, calls |-> <<>>, log |-> <<>>, result |-> Uninit]

\* elf_segment_copy before it is called on its own
CopyIdle ==
  [pc |-> "idle", image |-> NoFile, segment |-> [vaddr |-> 0, filesz |-> 0],
   dst |-> <<>>, res |-> FALSE]

\* the five flags of main's option string "e:p:i:s:o:"
Flags == {"e", "p", "i", "s", "o"}

\* argc: the program's name, and each flag given with its argument
Argc(given) == 1 + 2 * Cardinality(given)

\* A command line with all five flags, over every input and every string; or
\* any set of flags, over an -e path with no file or with one executable.
Init ==
  /\ pc = "start"
  /\ run = 1
  /\ \/ /\ input \in Inputs
        /\ args \in [given : {Flags}, search_path : SearchStrs,
                     input_patch : PatchStrs, interp_path : NewInterpStrs]
     \/ /\ input \in {NoFile, OtherElf}
        /\ args \in [given : SUBSET Flags, search_path : {Str(64, 1)},
                     input_patch : {Str(96, 1)}, interp_path : {Str(32, 1)}]
  /\ mem = NoFile
  /\ ctx = Ctx0
  /\ lv = Lv0
  /\ pre \in {NoFile, input, OtherElf}
  /\ fs = [tmp |-> NoFile, out |-> pre]
  /\ renamed = FALSE
  /\ io_failed = FALSE
  /\ ret = FALSE
  /\ exit_status = 0 - 1
  /\ first = NoFile
  /\ hook = HookIdle
  /\ copy = CopyIdle

\* a call that the environment lets succeed (ok) or fail
Env(ok) == io_failed' = (io_failed \/ ~ok)

\* return v from shiva_prelink
Return(v) == pc' = "returned" /\ ret' = v

\* main, lines 441-451: too few arguments for any flag to have been given
MainArgc ==
  /\ pc = "start"
  /\ pc' = IF Argc(args.given) < 3 THEN "usage" ELSE "getopt"
  /\ UNCHANGED <<io_failed, run, input, args, mem, ctx, lv, fs, pre, renamed, ret,
                 exit_status, first, hook, copy>>

\* main, lines 453-500: each flag given is strdup()ed into ctx, and the -e
\* path is tried with access(); a failure of either is exit(EXIT_FAILURE)
MainGetopt ==
  /\ pc = "getopt"
  /\ \E ok \in BOOLEAN :
       /\ Env(ok)
       /\ IF ok /\ ~("e" \in args.given /\ input = NoFile)
          THEN pc' = "flags" /\ UNCHANGED exit_status
          ELSE pc' = "exited" /\ exit_status' = 1
  /\ UNCHANGED <<run, input, args, mem, ctx, lv, fs, pre, renamed, ret, first, hook, copy>>

\* main, lines 501-503: a flag that was not given left its field NULL
MainFlags ==
  /\ pc = "flags"
  /\ pc' = IF args.given # Flags THEN "usage" ELSE "main"
  /\ UNCHANGED <<io_failed, run, input, args, mem, ctx, lv, fs, pre, renamed, ret,
                 exit_status, first, hook, copy>>

\* main, lines 442-450: the usage text is printed, then exit(0)
MainUsage ==
  /\ pc = "usage"
  /\ pc' = "exited"
  /\ exit_status' = 0
  /\ UNCHANGED <<io_failed, run, input, args, mem, ctx, lv, fs, pre, renamed, ret, first, hook, copy>>

\* main, lines 508-513: elf_open_object() maps the input privately
MainOpen ==
  /\ pc = "main"
  /\ \E ok \in BOOLEAN :
       /\ Env(ok)
       /\ IF ok
          THEN /\ mem' = input
               /\ pc' = "interp"
               /\ UNCHANGED exit_status
          ELSE /\ pc' = "exited"
               /\ exit_status' = 1
               /\ UNCHANGED mem
  /\ UNCHANGED <<run, input, args, ctx, lv, fs, pre, renamed, ret, first, hook, copy>>

\* lines 153-165: the original interpreter string, strdup()ed
GetInterp ==
  /\ pc = "interp"
  /\ IF elf_interpreter_path(mem) = NULL
     THEN Return(FALSE) /\ UNCHANGED <<ctx, lv, io_failed>>
     ELSE \E ok \in BOOLEAN :
            /\ Env(ok)
            /\ IF ok
               THEN /\ ctx' = [ctx EXCEPT !.orig_interp_path =
                                            CStr(mem, elf_interpreter_path(mem))]
                    /\ lv' = [lv EXCEPT !.heap = @ \cup {"orig_interp_path"}]
                    /\ pc' = "static"
                    /\ UNCHANGED ret
               ELSE Return(FALSE) /\ UNCHANGED <<ctx, lv>>
  /\ UNCHANGED <<run, input, args, mem, fs, pre, renamed, exit_status, first, hook, copy>>

\* lines 166-176: no static executables; the segment iterator starts
CheckStatic ==
  /\ pc = "static"
  /\ IF elf_flags_dynamic(mem)
     THEN pc' = "phdr" /\ lv' = [lv EXCEPT !.index = 0] /\ UNCHANGED ret
     ELSE Return(FALSE) /\ UNCHANGED lv
  /\ UNCHANGED <<io_failed, run, input, args, mem, ctx, fs, pre, renamed, exit_status, first, hook, copy>>

\* elf_segment_iterator_next() has a segment to give: the one at lv.index
HasSegment == pc = "phdr" /\ lv.index < Len(mem.phdrs)
Segment == mem.phdrs[lv.index + 1]

\* lines 177-182: a PT_LOAD is remembered as the last one seen
PhdrLoad ==
  /\ HasSegment
  /\ Segment.type = "PT_LOAD"
  /\ lv' = [lv EXCEPT !.index = @ + 1,
                      !.last_load_vaddr = Segment.vaddr,
                      !.last_load_offset = Segment.offset,
                      !.last_load_size = Segment.memsz,
                      !.last_load_align = ELF_MIN_ALIGN]
  /\ UNCHANGED <<io_failed, pc, run, input, args, mem, ctx, fs, pre, renamed, ret,
                 exit_status, first, hook, copy>>

\* lines 203-210: what the new segment is given as its size
NewSegmentFilesz(segment) ==
  segment.filesz + SizeofDyn * NEW_DYN_COUNT
  + Len(args.input_patch) + 1 + Len(args.search_path) + 1
  + Len(ctx.orig_interp_path) + 1

\* lines 185-186: the size of the new dynamic array
NewDynSize(f) == elf_dtag_count(f) * SizeofDyn + SizeofDyn * NEW_DYN_COUNT

\* lines 183-215: PT_DYNAMIC is copied and the new sizes are computed
PhdrDynamic ==
  /\ HasSegment
  /\ Segment.type = "PT_DYNAMIC"
  /\ \E ok \in BOOLEAN :
       LET copied == elf_segment_copy(mem, Segment)
       IN /\ Env(ok)
          /\ IF ok /\ copied.res
             THEN /\ ctx' = [ctx EXCEPT
                               !.new_segment.dyn_size = NewDynSize(mem),
                               !.new_segment.dyn_offset = 0,
                               !.new_segment.filesz = NewSegmentFilesz(Segment)]
                  /\ lv' = [lv EXCEPT
                              !.index = @ + 1,
                              !.found_dynamic = TRUE,
                              !.old_dynamic_size = elf_dtag_count(mem) * SizeofDyn,
                              !.old_dynamic_segment = copied.dst,
                              !.dynamic_index = lv.index,
                              !.heap = @ \cup {"old_dynamic_segment"}]
                  /\ UNCHANGED <<pc, ret>>
             ELSE /\ Return(FALSE)
                  /\ lv' = IF ok
                           THEN [lv EXCEPT !.heap = @ \cup {"old_dynamic_segment"}]
                           ELSE lv
                  /\ UNCHANGED ctx
  /\ UNCHANGED <<run, input, args, mem, fs, pre, renamed, exit_status, first, hook, copy>>

\* lines 221-230: the PT_LOAD that takes the place of PT_NOTE
NewLoadSegment ==
  LET vaddr == ELF_PAGEALIGN(lv.last_load_vaddr + lv.last_load_size,
                             lv.last_load_align)
  IN [type |-> "PT_LOAD",
      offset |-> ELF_PAGEALIGN(mem.size, lv.last_load_align),
      filesz |-> ctx.new_segment.filesz,
      memsz |-> ctx.new_segment.filesz,
      vaddr |-> vaddr,
      paddr |-> vaddr,
      align |-> lv.last_load_align,
      flags |-> {"R", "W", "X"}]

\* lines 249-256: the PT_DYNAMIC that points into the new segment
NewDynSegment(n_segment) ==
  [type |-> "PT_DYNAMIC",
   flags |-> {"R", "W"},
   vaddr |-> n_segment.vaddr,
   paddr |-> n_segment.vaddr,
   offset |-> n_segment.offset,
   filesz |-> ctx.new_segment.dyn_size,
   memsz |-> ctx.new_segment.dyn_size,
   align |-> 8]

\* lines 216-267: the first PT_NOTE becomes the new PT_LOAD, PT_DYNAMIC moves
PhdrNote ==
  /\ HasSegment
  /\ Segment.type = "PT_NOTE"
  /\ IF lv.found_dynamic = FALSE
     THEN /\ Return(FALSE)
          /\ UNCHANGED <<mem, ctx, lv>>
     ELSE LET n_segment == NewLoadSegment
          IN /\ mem' = elf_segment_modify(
                         elf_segment_modify(mem, lv.index, n_segment),
                         lv.dynamic_index, NewDynSegment(n_segment))
             /\ ctx' = [ctx EXCEPT !.new_segment.vaddr = n_segment.vaddr,
                                   !.new_segment.offset = n_segment.offset,
                                   !.new_segment.filesz = n_segment.filesz,
                                   !.new_segment.memsz = n_segment.memsz]
             /\ lv' = [lv EXCEPT !.index = @ + 1,
                                 !.n_segment = n_segment,
                                 !.found_note = TRUE]
             /\ pc' = "phdrdone"
             /\ UNCHANGED ret
  /\ UNCHANGED <<io_failed, run, input, args, fs, pre, renamed, exit_status, first, hook, copy>>

\* line 177: a segment of another type is passed over
PhdrOther ==
  /\ HasSegment
  /\ Segment.type \notin {"PT_LOAD", "PT_DYNAMIC", "PT_NOTE"}
  /\ lv' = [lv EXCEPT !.index = @ + 1]
  /\ UNCHANGED <<io_failed, pc, run, input, args, mem, ctx, fs, pre, renamed, ret,
                 exit_status, first, hook, copy>>

\* line 177: the iterator is done
PhdrEnd ==
  /\ pc = "phdr"
  /\ ~(lv.index < Len(mem.phdrs))
  /\ pc' = "phdrdone"
  /\ UNCHANGED <<io_failed, run, input, args, mem, ctx, lv, fs, pre, renamed, ret,
                 exit_status, first, hook, copy>>

\* line 269, with "&&" in the place of "||"
NoExtraSegment_and == lv.found_note = FALSE /\ lv.found_dynamic = FALSE

\* line 269
NoExtraSegment == lv.found_note = FALSE \/ lv.found_dynamic = FALSE

\* lines 269-272
PhdrDone ==
  /\ pc = "phdrdone"
  /\ IF NoExtraSegment
     THEN Return(FALSE)
     ELSE pc' = "shdr" /\ UNCHANGED ret
  /\ UNCHANGED <<io_failed, run, input, args, mem, ctx, lv, fs, pre, renamed, exit_status,
                 first, hook, copy>>

\* lines 277-299: the first SHT_DYNAMIC section header follows the segment
ShdrsOfType(f, t) == {i \in 1..Len(f.shdrs) : f.shdrs[i].type = t}
\* line 288, with the size of the segment in the place of the array's
NewDynSection_segsize(shdr) ==
  [shdr EXCEPT !.offset = ctx.new_segment.offset,
               !.address = ctx.new_segment.vaddr,
               !.size = ctx.new_segment.filesz]

NewDynSection(shdr) ==
  [shdr EXCEPT !.offset = ctx.new_segment.offset,
               !.address = ctx.new_segment.vaddr,
               !.size = ctx.new_segment.dyn_size]
UpdateSection ==
  /\ pc = "shdr"
  /\ LET dyns == ShdrsOfType(mem, "SHT_DYNAMIC")
     IN IF dyns = {} THEN UNCHANGED mem
        ELSE LET i == CHOOSE i \in dyns : \A j \in dyns : i <= j
             IN mem' = elf_section_modify(mem, i - 1, NewDynSection(mem.shdrs[i]))
  /\ pc' = "stat"
  /\ UNCHANGED <<io_failed, run, input, args, ctx, lv, fs, pre, renamed, ret, exit_status,
                 first, hook, copy>>

\* ------------------------------------------------------ writing the output
\* write(fd, buf, Len(seq)) at the end of file f
AppendTo(f, seq) ==
  [f EXCEPT !.size = @ + Len(seq), !.data = Place(seq, f.size) @@ @]

\* write(fd, mem, n) into the empty temporary file: the image's first n bytes
WriteImage(m, n) ==
  [m EXCEPT !.size = n,
            !.data = [o \in {x \in DOMAIN m.data : x < n} |-> m.data[o]]]

\* write(fd, &null, n): the one byte of "null", then the n - 1 bytes that
\* follow it on the stack, all g here
WritePad(f, n, g) ==
  [f EXCEPT !.size = @ + n,
            !.data = IF n >= 1 THEN (f.size :> 0) @@ @ ELSE @,
            !.fill = IF n >= 2
                     THEN @ \cup {[lo |-> f.size + 1, hi |-> f.size + n - 1,
                                   byte |-> g]}
                     ELSE @]

\* the first n bytes at a buffer: its own, then whatever follows it
BufferBytes(buf, n) == [k \in 1..n |-> IF k <= Len(buf) THEN buf[k] ELSE Opaque]

\* lines 338-339, with the last entry written too
OldDynamicBytes_all == BufferBytes(lv.old_dynamic_segment, lv.old_dynamic_size)

\* lines 338-339: the old dynamic array without its last entry
OldDynamicBytes ==
  BufferBytes(lv.old_dynamic_segment, lv.old_dynamic_size - SizeofDyn)

\* lines 352-361, with the NUL of the search path not counted
NewDynEntries_nonul ==
  LET base == ctx.new_segment.vaddr + ctx.new_segment.dyn_size
  IN DynSeq(SHIVA_DT_SEARCH, base)
     \o DynSeq(SHIVA_DT_NEEDED, base + Len(args.search_path))
     \o DynSeq(SHIVA_DT_ORIG_INTERP,
               base + Len(args.search_path) + Len(args.input_patch) + 1)
     \o DynSeq(DT_NULL, 0)

\* lines 352-361: dyn[NEW_DYN_ENTRY_SZ]
NewDynEntries ==
  LET base == ctx.new_segment.vaddr + ctx.new_segment.dyn_size
  IN DynSeq(SHIVA_DT_SEARCH, base)
     \o DynSeq(SHIVA_DT_NEEDED, base + Len(args.search_path) + 1)
     \o DynSeq(SHIVA_DT_ORIG_INTERP,
               base + Len(args.search_path) + 1 + Len(args.input_patch) + 1)
     \o DynSeq(DT_NULL, 0)

\* a step that may fail and then returns false
Step(at, next, ok, effect) ==
  /\ pc = at
  /\ Env(ok)
  /\ IF ok THEN pc' = next /\ effect /\ UNCHANGED ret
     ELSE Return(FALSE) /\ UNCHANGED <<fs, lv, mem>>
  /\ UNCHANGED <<run, input, args, ctx, pre, renamed, exit_status, first, hook, copy>>

\* lines 306-309
Stat ==
  \E ok \in BOOLEAN : Step("stat", "mkstemp", ok, UNCHANGED <<fs, lv, mem>>)

\* lines 311-315
Mkstemp ==
  \E ok \in BOOLEAN :
    Step("mkstemp", "write1", ok,
         /\ fs' = [fs EXCEPT !.tmp = EmptyFile]
         /\ lv' = [lv EXCEPT !.fd = "open"]
         /\ UNCHANGED mem)

\* a write() to the temporary file
WriteTmp(at, next, ok, file) ==
  Step(at, next, ok, fs' = [fs EXCEPT !.tmp = file] /\ UNCHANGED <<lv, mem>>)

\* lines 320-323
Write1 ==
  \E ok \in BOOLEAN : WriteTmp("write1", "write2", ok, WriteImage(mem, mem.size))

\* lines 329-332
Write2 ==
  \E ok \in BOOLEAN, g \in {0, Opaque} :
    WriteTmp("write2", "write3", ok,
             WritePad(fs.tmp, lv.n_segment.offset - mem.size, g))

\* lines 338-342
Write3 ==
  \E ok \in BOOLEAN :
    WriteTmp("write3", "write4", ok, AppendTo(fs.tmp, OldDynamicBytes))

\* lines 363-366
Write4 ==
  \E ok \in BOOLEAN :
    WriteTmp("write4", "write5", ok, AppendTo(fs.tmp, NewDynEntries))

\* lines 367-370
Write5 ==
  \E ok \in BOOLEAN :
    WriteTmp("write5", "write6", ok, AppendTo(fs.tmp, StrSeq(args.search_path)))

\* lines 371-374
Write6 ==
  \E ok \in BOOLEAN :
    WriteTmp("write6", "write7", ok, AppendTo(fs.tmp, StrSeq(args.input_patch)))

\* lines 378-382
Write7 ==
  \E ok \in BOOLEAN :
    WriteTmp("write7", "fchown", ok,
             AppendTo(fs.tmp, StrSeq(ctx.orig_interp_path)))

\* lines 383-386
Fchown ==
  \E ok \in BOOLEAN : Step("fchown", "fchmod", ok, UNCHANGED <<fs, lv, mem>>)

\* lines 387-390
Fchmod ==
  \E ok \in BOOLEAN : Step("fchmod", "close", ok, UNCHANGED <<fs, lv, mem>>)

\* lines 391-399: close(fd), strdup() of the path, elf_close_object()
Close ==
  /\ pc = "close"
  /\ \E ok \in BOOLEAN :
       /\ Env(ok)
       /\ IF ok
          THEN /\ lv' = [lv EXCEPT !.fd = "closed", !.heap = @ \cup {"target_path"}]
               /\ pc' = "rename"
               /\ mem' = NoFile
               /\ UNCHANGED ret
          ELSE /\ lv' = [lv EXCEPT !.fd = "closed"]
               /\ Return(FALSE)
               /\ UNCHANGED mem
  /\ UNCHANGED <<run, input, args, ctx, fs, pre, renamed, exit_status, first, hook, copy>>

\* line 400: rename(template, ctx->output_exec), its result not looked at
Rename ==
  /\ pc = "rename"
  /\ \E ok \in BOOLEAN :
       /\ Env(ok)
       /\ IF ok THEN fs' = [tmp |-> NoFile, out |-> fs.tmp] /\ renamed' = TRUE
          ELSE UNCHANGED <<fs, renamed>>
  /\ pc' = "reopen"
  /\ UNCHANGED <<run, input, args, mem, ctx, lv, pre, ret, exit_status, first, hook, copy>>

\* lines 402-409: elf_open_object() maps what is at the output path, shared;
\* free(target_path) either way
Reopen ==
  /\ pc = "reopen"
  /\ lv' = [lv EXCEPT !.heap = @ \ {"target_path"}]
  /\ \E ok \in BOOLEAN :
       /\ Env(ok /\ fs.out # NoFile)
       /\ IF ok /\ fs.out # NoFile THEN pc' = "magic" /\ UNCHANGED ret
          ELSE Return(FALSE)
  /\ UNCHANGED <<run, input, args, mem, ctx, fs, pre, renamed, exit_status,
                 first, hook, copy>>

\* line 410: the signature goes into e_ident[EI_PAD] of the mapped file
WriteSignature(f) == [f EXCEPT !.epad = SHIVA_SIGNATURE]
Magic ==
  /\ pc = "magic"
  /\ fs' = [fs EXCEPT !.out = WriteSignature(@)]
  /\ pc' = "interpchk"
  /\ UNCHANGED <<io_failed, run, input, args, mem, ctx, lv, pre, renamed, ret, exit_status,
                 first, hook, copy>>

\* line 417: the new path does not fit in the string that is there
InterpTooLong(f) == Len(args.interp_path) > Strlen(f, elf_interpreter_path(f))

\* line 422, with one byte more than the string and its NUL
Strcpy_over(f, off, s) == [f EXCEPT !.data = StrBytes(s \o <<0>>, off) @@ @]

\* line 422: strcpy(path, ctx->interp_path)
Strcpy(f, off, s) == [f EXCEPT !.data = StrBytes(s, off) @@ @]

\* lines 416-423
SetInterp ==
  /\ pc = "interpchk"
  /\ IF InterpTooLong(fs.out)
     THEN Return(FALSE) /\ UNCHANGED fs
     ELSE /\ fs' = [fs EXCEPT !.out =
                      Strcpy(@, elf_interpreter_path(@), args.interp_path)]
          /\ Return(TRUE)
  /\ UNCHANGED <<run, input, args, mem, ctx, lv, pre, renamed, io_failed,
                 exit_status, first, hook, copy>>

\* main, lines 531-536
MainExit ==
  /\ pc = "returned"
  /\ exit_status' = IF ret THEN 0 ELSE 1
  /\ pc' = "exited"
  /\ UNCHANGED <<io_failed, run, input, args, mem, ctx, lv, fs, pre, renamed, ret, first, hook, copy>>

\* the tool is run again, on the output it has just produced and with the
\* same arguments
Rerun ==
  /\ pc = "exited"
  /\ run = 1
  /\ exit_status = 0
  /\ renamed
  /\ run' = 2
  /\ input' = fs.out
  /\ first' = fs.out
  /\ pre' = fs.out
  /\ fs' = [fs EXCEPT !.tmp = NoFile]
  /\ mem' = NoFile
  /\ ctx' = Ctx0
  /\ lv' = Lv0
  /\ renamed' = FALSE
  /\ io_failed' = FALSE
  /\ ret' = FALSE
  /\ exit_status' = 0 - 1
  /\ pc' = "start"
  /\ UNCHANGED <<args, hook, copy>>

Next ==
  \/ MainArgc \/ MainGetopt \/ MainFlags \/ MainUsage
  \/ MainOpen \/ GetInterp \/ CheckStatic
  \/ PhdrLoad \/ PhdrDynamic \/ PhdrNote \/ PhdrOther \/ PhdrEnd \/ PhdrDone
  \/ UpdateSection \/ Stat \/ Mkstemp
  \/ Write1 \/ Write2 \/ Write3 \/ Write4 \/ Write5 \/ Write6 \/ Write7
  \/ Fchown \/ Fchmod \/ Close \/ Rename \/ Reopen \/ Magic \/ SetInterp
  \/ MainExit \/ Rerun

Spec == Init /\ [][Next]_vars

\* ------------------------------------- sshd_patch.c: the auth_password hook
\* the prelinker's variables, which the hook has nothing to do with
ldvars ==
  <<pc, run, input, args, mem, ctx, lv, fs, pre, renamed, io_failed, ret,
    exit_status, first>>

LdIdle ==
  /\ pc = "idle"
  /\ run = 1
  /\ input = NoFile
  /\ args = [given |-> {}, search_path |-> <<>>, input_patch |-> <<>>,
             interp_path |-> <<>>]
  /\ mem = NoFile
  /\ ctx = Ctx0
  /\ lv = Lv0
  /\ pre = NoFile
  /\ fs = [tmp |-> NoFile, out |-> NoFile]
  /\ renamed = FALSE
  /\ io_failed = FALSE
  /\ ret = FALSE
  /\ exit_status = 0 - 1
  /\ first = NoFile

\* pw->pw_name and the password of a call, and what the original
\* auth_password returns for them
UserNames == {Str(64, n) : n \in 1..MaxUser}
Passwords == {Str(96, n) : n \in 1..MaxPassword}
OrigRets == (0 - 1)..MaxRet

\* sshd calls auth_password(ssh, password): the hook is entered
InitHook ==
  /\ LdIdle
  /\ copy = CopyIdle
  /\ hook \in {[HookIdle EXCEPT !.pc = "fopen", !.user = u, !.password = p,
                                !.orig = r] :
                 u \in UserNames, p \in Passwords, r \in OrigRets}

\* line 61: logfd = fopen(..., "a+"), which gives NULL when it fails
HookFopen ==
  /\ hook.pc = "fopen"
  /\ \E ok \in BOOLEAN :
       hook' = [hook EXCEPT !.logfd = IF ok THEN "open" ELSE "NULL",
                            !.pc = "banner"]
  /\ UNCHANGED <<ldvars, copy>>

\* a text of the log: the banner of line 62, or the login of lines 74-76
Banner == [text |-> "hook called", user |-> <<>>, password |-> <<>>]
Login(user, password) == [text |-> "login", user |-> user, password |-> password]

\* fprintf(logfd, ...) or fclose(logfd) at hook.pc, then on to next: with a
\* stream the text is written (fclose writes none); with NULL the call is
\* undefined, and the process dies in it or gets past it
OnStream(next, text, die) ==
  IF hook.logfd = "open"
  THEN hook' = [hook EXCEPT !.log = @ \o text, !.pc = next]
  ELSE hook' = [hook EXCEPT !.pc = IF die THEN "crashed" ELSE next]

\* line 62
HookBanner ==
  /\ hook.pc = "banner"
  /\ \E die \in BOOLEAN : OnStream("call", <<Banner>>, die)
  /\ UNCHANGED <<ldvars, copy>>

\* line 68: ret = the original auth_password(ssh, password)
HookCall ==
  /\ hook.pc = "call"
  /\ hook' = [hook EXCEPT
                !.calls = Append(@, [user |-> hook.user, password |-> hook.password]),
                !.ret = hook.orig,
                !.pc = "log"]
  /\ UNCHANGED <<ldvars, copy>>

\* lines 69-77: a successful login is written to the log
HookLog ==
  /\ hook.pc = "log"
  /\ IF hook.ret > 0
     THEN \E die \in BOOLEAN :
            OnStream("fclose", <<Login(hook.user, hook.password)>>, die)
     ELSE hook' = [hook EXCEPT !.pc = "fclose"]
  /\ UNCHANGED <<ldvars, copy>>

\* line 78
HookFclose ==
  /\ hook.pc = "fclose"
  /\ \E die \in BOOLEAN : OnStream("return", <<>>, die)
  /\ UNCHANGED <<ldvars, copy>>

\* line 79: return ret
HookReturn ==
  /\ hook.pc = "return"
  /\ hook' = [hook EXCEPT !.result = hook.ret, !.pc = "done"]
  /\ UNCHANGED <<ldvars, copy>>

NextHook ==
  \/ HookFopen \/ HookBanner \/ HookCall \/ HookLog \/ HookFclose \/ HookReturn

SpecHook == InitHook /\ [][NextHook]_vars

\* --------------------------------------------- elf_segment_copy on its own
\* a byte of dst that the caller put there before the call
Sentinel == 15 * 17

\* An image with one PT_LOAD and bytes that are neither 0 nor Sentinel from
\* DynOff on; cut short, its end comes 12 bytes after DynOff.
CopyImage(m, short) ==
  [EmptyFile EXCEPT
     !.size = IF short THEN DynOff + 12 ELSE 3 * ELF_MIN_ALIGN,
     !.phdrs = <<PhLoad1>>,
     !.data = [o \in DynOff..(DynOff + MaxSeg + SizeofQword) |->
                 1 + ((o * m) % 250)]]

\* the call: a segment of 0..MaxSeg bytes, at DynOff or 3 bytes further, and
\* a dst of filesz + 8 bytes
InitCopy ==
  /\ LdIdle
  /\ hook = HookIdle
  /\ copy \in {[pc |-> "call",
                image |-> CopyImage(m, short),
                segment |-> [vaddr |-> LoadBase + DynOff + d, filesz |-> n],
                dst |-> [k \in 1..(n + SizeofQword) |-> Sentinel],
                res |-> FALSE] :
                m \in {1, 7}, short \in BOOLEAN, d \in {0, 3}, n \in 0..MaxSeg}

\* lines 98-130: the call runs and returns
CopyCall ==
  /\ copy.pc = "call"
  /\ LET r == CopyLoop(copy.image, copy.segment, copy.dst, 0)
     IN copy' = [copy EXCEPT !.pc = "done", !.res = r.res, !.dst = r.dst]
  /\ UNCHANGED <<ldvars, hook>>

NextCopy == CopyCall

SpecCopy == InitCopy /\ [][NextCopy]_vars

\* ------------------------------------------------------------- properties
Returned == pc \in {"returned", "exited"}
Succeeded == Returned /\ ret

\* The file this run made: mkstemp() created it and the writes filled it; it
\* is at the output path once rename() has moved it there, and at its
\* temporary path until then.
Built == IF renamed THEN fs.out ELSE fs.tmp

\* the input's original interpreter string and tag count (terminator counted)
OrigInterp == CStr(input, elf_interpreter_path(input))
OrigCount == elf_dtag_count(input)
OrigDynamic == input.phdrs[FirstOfType(input, "PT_DYNAMIC")]

\* in a file made from the input: the program header in the slot of the
\* input's first PT_NOTE, the one in the slot of its PT_DYNAMIC, and its
\* first SHT_DYNAMIC section header
NoteSlot == FirstOfType(input, "PT_NOTE")
DynSlot == FirstOfType(input, "PT_DYNAMIC")
NewLoad(f) == f.phdrs[NoteSlot]
DynHeader(f) == f.phdrs[DynSlot]
DynSection(f) ==
  f.shdrs[CHOOSE i \in ShdrsOfType(f, "SHT_DYNAMIC") :
            \A j \in ShdrsOfType(f, "SHT_DYNAMIC") : i <= j]

\* entry i (from 1) of the dynamic array at file offset base
EntryTag(f, base, i) == ReadQword(f, base + (i - 1) * SizeofDyn)
EntryVal(f, base, i) == ReadQword(f, base + (i - 1) * SizeofDyn + SizeofQword)

\* the bytes of the three strings with their NULs
StringBytes ==
  Len(args.search_path) + 1 + Len(args.input_patch) + 1 + Len(OrigInterp) + 1

\* a virtual address inside the new segment as a file offset
SegOffset(f, ptr) == ptr - NewLoad(f).vaddr + NewLoad(f).offset

\* the NUL-terminated string str begins at file offset off of f
StringAt(f, off, str) ==
  /\ \A k \in 1..Len(str) : ByteAt(f, off + k - 1) = str[k]
  /\ off + Len(str) \in DOMAIN f.data
  /\ f.data[off + Len(str)] = 0

\* an input that shiva_prelink refuses for its structure
NoInterp(f) == elf_interpreter_path(f) = NULL
NoDynamic(f) == PhdrsOfType(f, "PT_DYNAMIC") = {}
NoNote(f) == PhdrsOfType(f, "PT_NOTE") = {}
NoteBeforeDynamic(f) ==
  ~NoNote(f) /\ ~NoDynamic(f)
  /\ FirstOfType(f, "PT_NOTE") < FirstOfType(f, "PT_DYNAMIC")
Refused(f) == NoInterp(f) \/ NoDynamic(f) \/ NoNote(f) \/ NoteBeforeDynamic(f)

\* C1: when the new interpreter path is longer than the original PT_INTERP
\* string, shiva_prelink returns false and the output path holds nothing this
\* run created or changed: the temporary file has not been renamed onto it.
\* Stated for the runs in which every system and library call succeeds, so
\* that the length of the path is the only thing that makes the run fail.
C1_LongInterpLeavesNoOutput ==
  (Returned /\ ~io_failed /\ ~NoInterp(input)
     /\ Len(args.interp_path) > Len(OrigInterp))
  => (~ret /\ ~renamed /\ fs.out = pre)

C3_TagsPointAtStrings ==
  Succeeded =>
    LET base == NewLoad(Built).offset
        search == SegOffset(Built, EntryVal(Built, base, OrigCount))
        needed == SegOffset(Built, EntryVal(Built, base, OrigCount + 1))
        interp == SegOffset(Built, EntryVal(Built, base, OrigCount + 2))
    IN /\ search = base + (OrigCount + 3) * SizeofDyn
       /\ StringAt(Built, search, args.search_path)
       /\ needed = search + Len(args.search_path) + 1
       /\ StringAt(Built, needed, args.input_patch)
       /\ interp = needed + Len(args.input_patch) + 1
       /\ StringAt(Built, interp, OrigInterp)

C3_Witness ==
  /\ Succeeded /\ renamed /\ run = 1
  /\ Len(args.search_path) = MaxSearch
  /\ Len(args.input_patch) = 1
  /\ Len(OrigInterp) = MaxInterp
  /\ OrigCount = 2

\* C4: the new PT_LOAD header's file size and memory size are both the new
\* dynamic array's bytes, (original tag count + 3) x entry size, plus the
\* three strings with their NULs, and that is the number of bytes appended to
\* the file from the segment's file offset on.
C4_SegmentSizeIsBytesWritten ==
  Succeeded =>
    /\ NewLoad(Built).filesz = (OrigCount + 3) * SizeofDyn + StringBytes
    /\ NewLoad(Built).memsz = NewLoad(Built).filesz
    /\ NewLoad(Built).filesz = Built.size - NewLoad(Built).offset

\* C5: the new segment's vaddr is a multiple of 4096 and at or past the end
\* (vaddr + memsz) of every PT_LOAD of the input, and its file offset is the
\* input's size rounded up to a multiple of 4096.
C5_SegmentPastEveryLoad ==
  Succeeded =>
    /\ NewLoad(Built).vaddr % ELF_MIN_ALIGN = 0
    /\ \A i \in PhdrsOfType(input, "PT_LOAD") :
         NewLoad(Built).vaddr >= input.phdrs[i].vaddr + input.phdrs[i].memsz
    /\ NewLoad(Built).offset = ELF_PAGEALIGN(input.size, ELF_MIN_ALIGN)

\* C6: a second run on the first run's output with the same arguments
\* succeeds and gives an output of the same size, with the same program
\* headers and the same dynamic array. Stated for the second runs in which
\* every system and library call succeeds.
C6_SecondRunSameOutput ==
  (run = 2 /\ Returned /\ ~io_failed) =>
    /\ ret
    /\ fs.out.size = first.size
    /\ fs.out.phdrs = first.phdrs
    /\ \A i \in 1..elf_dtag_count(first) :
         LET at(f) == f.phdrs[FirstOfType(f, "PT_DYNAMIC")].offset
         IN /\ EntryTag(fs.out, at(fs.out), i) = EntryTag(first, at(first), i)
            /\ EntryVal(fs.out, at(fs.out), i) = EntryVal(first, at(first), i)

\* C7: an input with no interpreter string, no dynamic segment, no PT_NOTE,
\* or its first PT_NOTE before PT_DYNAMIC is refused before any file is
\* created: shiva_prelink never gets past the program headers and returns
\* false, there is no temporary file, the output path is as it was, and main
\* exits with a status that is not 0.
C7_RefusedBeforeAnyFile ==
  (Refused(input) /\ input # NoFile /\ args.given = Flags) =>
    /\ pc \in {"start", "getopt", "flags", "main", "interp", "static", "phdr",
               "phdrdone", "returned", "exited"}
    /\ (Returned => ~ret)
    /\ (pc = "exited" => exit_status # 0)
    /\ fs.tmp = NoFile
    /\ lv.fd = "none"
    /\ fs.out = pre
    /\ ~renamed

C7_Witness ==
  /\ pc = "exited" /\ run = 1 /\ exit_status = 1
  /\ mem # NoFile
  /\ NoNote(input) /\ ~NoInterp(input) /\ ~NoDynamic(input)

\* C8: after a successful shiva_prelink the PT_DYNAMIC program header and the
\* SHT_DYNAMIC section header both have the new segment's file offset and
\* vaddr and the size (original tag count + 3) x entry size (the header's
\* filesz and memsz both), and that region lies inside the new PT_LOAD's
\* file range.
C8_DynamicHeadersAgree ==
  Succeeded =>
    LET p == DynHeader(Built)
        sh == DynSection(Built)
        seg == NewLoad(Built)
    IN /\ p.type = "PT_DYNAMIC" /\ seg.type = "PT_LOAD"
       /\ p.offset = seg.offset /\ sh.offset = seg.offset
       /\ p.vaddr = seg.vaddr /\ sh.address = seg.vaddr
       /\ p.filesz = (OrigCount + 3) * SizeofDyn
       /\ p.memsz = p.filesz
       /\ sh.size = p.filesz
       /\ p.offset + p.filesz <= seg.offset + seg.filesz

C8_Witness ==
  /\ Succeeded /\ renamed /\ run = 1
  /\ OrigCount = MaxTags + 1
  /\ OrigDynamic.filesz > OrigCount * SizeofDyn

\* C9: shiva_prelink accepts a new interpreter path exactly when it is no
\* longer than the original PT_INTERP string (the step that decides returns
\* true then and false otherwise), and whenever it returns true the PT_INTERP
\* string of the file at the output path is the new path and e_ident[EI_PAD]
\* holds 0x00031f64.
C9_AcceptsIffFits ==
  /\ [][pc = "interpchk" => (ret' <=> Len(args.interp_path) <= Len(OrigInterp))]_vars
  /\ [](Succeeded =>
          /\ CStr(fs.out, elf_interpreter_path(fs.out)) = args.interp_path
          /\ fs.out.epad = SHIVA_SIGNATURE)

\* the offsets below the input's size that the prelinker may change: the
\* first strlen(new interpreter) + 1 bytes of the PT_INTERP string
InterpRegion ==
  elf_interpreter_path(input)..(elf_interpreter_path(input) + Len(args.interp_path))

\* C10: after a successful shiva_prelink every byte of the output below the
\* input's size is the input's byte, except in the PT_NOTE slot and the
\* PT_DYNAMIC slot of the program header table, the SHT_DYNAMIC section
\* header, the 4 bytes at EI_PAD, and the first strlen(new interpreter) + 1
\* bytes of the PT_INTERP string.
C10_RestOfImageUnchanged ==
  Succeeded =>
    /\ Built.size >= input.size
    /\ Len(Built.phdrs) = Len(input.phdrs)
    /\ \A i \in 1..Len(input.phdrs) :
         i \notin {NoteSlot, DynSlot} => Built.phdrs[i] = input.phdrs[i]
    /\ Len(Built.shdrs) = Len(input.shdrs)
    /\ \A i \in 1..Len(input.shdrs) :
         input.shdrs[i].type # "SHT_DYNAMIC" => Built.shdrs[i] = input.shdrs[i]
    /\ \A o \in DOMAIN input.data \cup {x \in DOMAIN Built.data : x < input.size} :
         o \notin InterpRegion => ByteAt(Built, o) = ByteAt(input, o)
    /\ \A r \in input.fill \cup {x \in Built.fill : x.lo < input.size} :
         r \in input.fill /\ r \in Built.fill

C10_Witness ==
  /\ Succeeded /\ renamed /\ run = 1
  /\ Len(args.interp_path) < Len(OrigInterp)
  /\ Len(input.phdrs) = 5

\* C11: with at least one of the five flags absent, main prints the usage
\* text and exits with status 0 and has opened or changed no file, whatever
\* the other flags are, an -e path with no file behind it included. Stated
\* for the runs in which no library call fails.
C11_MissingFlagIsUsage ==
  /\ [](args.given # Flags => mem = NoFile /\ fs = [tmp |-> NoFile, out |-> pre])
  /\ [][(args.given # Flags /\ pc' = "exited" /\ ~io_failed')
         => (pc = "usage" /\ exit_status' = 0)]_vars

\* the call of the hook is over: it has returned, or the process has died
HookOver == hook.pc \in {"done", "crashed"}

\* C12: in every call of the hook the original auth_password is called
\* exactly once, with the same ssh and password, and the hook returns the
\* value the original returned; the user name and the password are written
\* only when that value is above 0. So too when the log cannot be opened.
C12_HookCallsOriginalOnce ==
  HookOver =>
    /\ hook.pc = "done"
    /\ hook.calls = <<[user |-> hook.user, password |-> hook.password]>>
    /\ hook.result = hook.orig
    /\ (\E i \in 1..Len(hook.log) : hook.log[i].text = "login") => hook.orig > 0

\* C13: in the output every byte from the end of the copied input (offset =
\* input size) up to the new segment's file offset (the size rounded up to
\* 4096) is zero, for every input size; and when the size is a multiple of
\* 4096 the second write adds no byte.
C13_PaddingIsZero ==
  /\ Succeeded =>
       \A off \in input.size..(NewLoad(Built).offset - 1) : ByteAt(Built, off) = 0
  /\ (pc = "write3" /\ input.size % ELF_MIN_ALIGN = 0) => fs.tmp.size = input.size

\* C14: when elf_segment_copy returns true, dst[i] is the image's byte at
\* segment.vaddr + i for every i below segment.filesz, and no byte of dst at
\* filesz or above has been written; for every filesz: 0, below 8, and the
\* multiples of 8.
C14_CopiesWholeSegment ==
  (copy.pc = "done" /\ copy.res) =>
    \A i \in 0..(Len(copy.dst) - 1) :
      copy.dst[i + 1] =
        IF i < copy.segment.filesz
        THEN ByteAt(copy.image, AddrToOffset(copy.image, copy.segment.vaddr + i))
        ELSE Sentinel

\* rename() has been called in this run and has failed: the temporary file
\* was closed and the input unmapped (lines 391-399), and nothing was moved
RenameFailed ==
  /\ pc \in {"reopen", "magic", "interpchk", "returned", "exited"}
  /\ lv.fd = "closed"
  /\ mem = NoFile
  /\ ~renamed

\* C15: if rename() of the temporary file to the output path fails,
\* shiva_prelink returns false and the file that was at the output path is as
\* it was; so whenever shiva_prelink returns true the file at the output path
\* is the one this run built and moved there.
C15_RenameFailureIsFailure ==
  /\ RenameFailed => (fs.out = pre /\ (Returned => ~ret))
  /\ Succeeded => renamed

\* C16: on every path on which shiva_prelink returns after it has created the
\* temporary file, the file's descriptor is closed and no temporary file is
\* left under /tmp; and on every path on which it returns, the buffer with
\* the copy of the original dynamic segment has been released.
C16_ResourcesReleased ==
  pc = "returned" =>
    /\ lv.fd # "none" => (lv.fd = "closed" /\ fs.tmp = NoFile)
    /\ "old_dynamic_segment" \notin lv.heap

====
